---- MODULE Spec2Model ----
(***************************************************************************)
(* Model of the streaming query-result reader: runQuery, processResponse   *)
(* and trimPartialLines.  One transfer is modelled: the fetch request, the *)
(* response body stream and its reader, the promise chain                  *)
(* request.then(processResponse).catch(...), and the caller's cancel.      *)
(* Every promise reaction (the resumption after an await, a then/catch     *)
(* handler) is a job of its own, so other jobs may run between the moment  *)
(* a promise settles and the moment its reaction runs.                     *)
(***************************************************************************)
EXTENDS Integers, Sequences, FiniteSets, TLC

\* ---------------------------------------------------------------- bounds
MaxBytes == 3
MaxCap == 2
MaxCancels == 2
MaxFragment == 3
MaxFairBytes == 2

\* ------------------------------------------------- bytes and code points
\* Bytes the payload is drawn from: an ASCII letter, the newline, and the
\* two bytes of the UTF-8 encoding of U+00E9.
ByteA == 97
LF == 10
ByteLead == 195
ByteCont == 169
\* Code points of the decoded text.
CharE == 233
Replacement == 65533

Bytes == {ByteA, LF, ByteLead, ByteCont}

RECURSIVE SeqsUpTo(_, _)
SeqsUpTo(S, n) ==
  IF n = 0 THEN {<<>>}
  ELSE LET shorter == SeqsUpTo(S, n - 1)
       IN shorter \cup {Append(s, x) : s \in {t \in shorter : Len(t) = n - 1}, x \in S}

\* Every way of sending at most n bytes as a sequence of non-empty chunks.
RECURSIVE PayloadsOf(_)
PayloadsOf(n) ==
  {<<>>} \cup UNION {{<<c>> \o p : p \in PayloadsOf(n - Len(c))} :
                       c \in SeqsUpTo(Bytes, n) \ {<<>>}}

Payloads == PayloadsOf(MaxBytes)
Caps == 1..MaxCap
\* The code points a decoded fragment is made of, and the fragments.
Chars == {ByteA, LF, CharE, Replacement}
Fragments == SeqsUpTo(Chars, MaxFragment)
StatusCodes == {200, 500}

\* ------------------------------------------------------- pure functions

RECURSIVE decodeSkipMalformed(_)
decodeSkipMalformed(bs) ==
  IF bs = <<>> THEN <<>>
  ELSE LET b == Head(bs)
           rest == Tail(bs)
       IN IF b = ByteLead
          THEN IF rest # <<>> /\ Head(rest) = ByteCont
               THEN <<CharE>> \o decodeSkipMalformed(Tail(rest))
               ELSE decodeSkipMalformed(rest)
          ELSE IF b = ByteCont
               THEN decodeSkipMalformed(rest)
               ELSE <<b>> \o decodeSkipMalformed(rest)

\* new TextDecoder() then decoder.decode(bytes): UTF-8, not fatal, and no
\* {stream: true}, so every call decodes its bytes on their own and flushes:
\* a lead byte without its continuation byte, and a continuation byte
\* without a lead byte, each decode to U+FFFD.
RECURSIVE decode(_)
decode(bs) ==
  IF bs = <<>> THEN <<>>
  ELSE LET b == Head(bs)
           rest == Tail(bs)
       IN IF b = ByteLead
          THEN IF rest # <<>> /\ Head(rest) = ByteCont
               THEN <<CharE>> \o decode(Tail(rest))
               ELSE <<Replacement>> \o decode(rest)
          ELSE IF b = ByteCont
               THEN <<Replacement>> \o decode(rest)
               ELSE <<b>> \o decode(rest)

RECURSIVE trimScanSkipFirst(_, _)
trimScanSkipFirst(partialResp, i) ==
  IF i <= 0 THEN partialResp
  ELSE IF i < Len(partialResp) /\ partialResp[i + 1] = LF
       THEN SubSeq(partialResp, 1, i + 1)
       ELSE trimScanSkipFirst(partialResp, i - 1)

RECURSIVE trimScanExclusive(_, _)
trimScanExclusive(partialResp, i) ==
  IF i >= 0 /\ i < Len(partialResp) /\ partialResp[i + 1] = LF
  THEN SubSeq(partialResp, 1, i)
  ELSE IF i <= 0 THEN partialResp
       ELSE trimScanExclusive(partialResp, i - 1)

\* The while loop of trimPartialLines; i is the 0-based index of the code.
RECURSIVE trimScan(_, _)
trimScan(partialResp, i) ==
  IF i >= 0 /\ i < Len(partialResp) /\ partialResp[i + 1] = LF
  THEN SubSeq(partialResp, 1, i + 1)
  ELSE IF i <= 0 THEN partialResp
       ELSE trimScan(partialResp, i - 1)

trimPartialLinesKeepAll(partialResp) == partialResp

trimPartialLinesDropAll(partialResp) == <<>>

trimPartialLines(partialResp) == trimScan(partialResp, Len(partialResp) - 1)

exceedsLimitNever(n, cap) == FALSE

exceedsLimitGeq(n, cap) == n >= cap

\* bytesRead > FLUX_RESPONSE_BYTES_LIMIT
exceedsLimit(n, cap) == n > cap

countBytesDecoded(n, value) == n + Len(decode(value))

\* bytesRead += read.value.byteLength
countBytes(n, value) == n + Len(value)

accumulatePrepend(acc, text) == text \o acc

\* csv += text
accumulate(acc, text) == acc \o text

catchErrorKeep(name) == name

catchErrorAlwaysCancel(name) == "CancellationError"

\* e.name === 'AbortError' ? new CancellationError() : e
catchError(name) == IF name = "AbortError" THEN "CancellationError" ELSE name

\* ---------------------------------------------------------- promise values
NoResult == [csv |-> <<>>, bytesRead |-> 0, didTruncate |-> FALSE]
Pending == [state |-> "pending", name |-> "none", value |-> NoResult]
Fulfilled(v) == [state |-> "fulfilled", name |-> "none", value |-> v]
Rejected(n) == [state |-> "rejected", name |-> n, value |-> NoResult]

\* ------------------------------------------------------------------ state
VARIABLES
  payload,                   \* the chunks the server sends, in order
  FLUX_RESPONSE_BYTES_LIMIT, \* the byte cap
  status,                    \* status of the response, 0 before it arrives
  request,                   \* the promise returned by fetch
  aborted,                   \* controller.signal.aborted
  stream,                    \* response.body: none, readable, errored, cancelled
  streamErr,                 \* the error of an errored stream
  sent,                      \* chunks the network has enqueued on the stream
  taken,                     \* chunks handed to a read request
  ended,                     \* the network has closed the stream
  pc,                        \* processResponse: notStarted, awaitRead, done
  read,                      \* the promise of reader.read() being awaited
  csv, bytesRead, didTruncate,
  released,                  \* number of reader.cancel() calls
  inner,                     \* the promise request.then(processResponse)
  promise,                   \* the promise of the handle (after .catch)
  outstanding,               \* reader.read() calls whose await has not resumed
  cancels,                   \* number of cancel() invocations
  cancelAt,                  \* where the transfer was at the first cancel()
  partialResp,               \* the fragment given to trimPartialLines
  trimmed                    \* what successive calls of trimPartialLines returned

vars == <<payload, FLUX_RESPONSE_BYTES_LIMIT, status, request, aborted, stream,
          streamErr, sent, taken, ended, pc, read, csv, bytesRead, didTruncate,
          released, outstanding, inner, promise, cancels, cancelAt, partialResp,
          trimmed>>

scanVars == <<partialResp, trimmed>>
config == <<payload, FLUX_RESPONSE_BYTES_LIMIT, scanVars>>
loopVars == <<pc, read, csv, bytesRead, didTruncate, released, outstanding, inner>>
netVars == <<status, request, stream, streamErr, sent, taken, ended>>

\* The state after runQuery has returned the handle: the request is in
\* flight and nothing has settled.
Started ==
  /\ status = 0
  /\ request = Pending
  /\ aborted = FALSE
  /\ stream = "none"
  /\ streamErr = "none"
  /\ sent = 0
  /\ taken = 0
  /\ ended = FALSE
  /\ pc = "notStarted"
  /\ read = "none"
  /\ csv = <<>>
  /\ bytesRead = 0
  /\ didTruncate = FALSE
  /\ released = 0
  /\ inner = Pending
  /\ promise = Pending
  /\ outstanding = 0
  /\ cancels = 0
  /\ cancelAt = "none"

Init ==
  /\ payload \in Payloads
  /\ FLUX_RESPONSE_BYTES_LIMIT \in Caps
  /\ Started
  /\ partialResp = <<>>
  /\ trimmed = <<>>

\* The stream has been closed by the network and its queue is drained.
StreamClosed == stream = "readable" /\ ended /\ taken = sent

\* ---------------------------------------------------------------- network

\* The response headers arrive: fetch fulfils its promise whatever the
\* status is, and the body becomes readable.
ResponseArrives ==
  /\ request.state = "pending"
  /\ \E s \in StatusCodes : status' = s
  /\ request' = Fulfilled(NoResult)
  /\ stream' = "readable"
  /\ UNCHANGED <<config, aborted, streamErr, sent, taken, ended, loopVars,
                 promise, cancels, cancelAt>>

\* The request fails in the network before any response.
RequestFails ==
  /\ request.state = "pending"
  /\ request' = Rejected("TypeError")
  /\ UNCHANGED <<config, status, aborted, stream, streamErr, sent, taken, ended,
                 loopVars, promise, cancels, cancelAt>>

\* The network enqueues the next chunk; a pending read request gets it.
ChunkArrives ==
  /\ stream = "readable" /\ ~ended
  /\ sent < Len(payload)
  /\ sent' = sent + 1
  /\ IF read = "pending"
     THEN read' = "chunk" /\ taken' = taken + 1
     ELSE UNCHANGED <<read, taken>>
  /\ UNCHANGED <<config, status, request, aborted, stream, streamErr, ended, pc,
                 csv, bytesRead, didTruncate, released, outstanding, inner, promise,
                 cancels, cancelAt>>

\* The network closes the stream after the last chunk.
EndArrives ==
  /\ stream = "readable" /\ ~ended
  /\ sent = Len(payload)
  /\ ended' = TRUE
  /\ read' = IF read = "pending" THEN "done" ELSE read
  /\ UNCHANGED <<config, status, request, aborted, stream, streamErr, sent, taken,
                 pc, csv, bytesRead, didTruncate, released, outstanding, inner,
                 promise, cancels, cancelAt>>

\* The connection breaks while the body is being received.
SourceError ==
  /\ stream = "readable" /\ ~ended
  /\ stream' = "errored"
  /\ streamErr' = "TypeError"
  /\ read' = IF read = "pending" THEN "TypeError" ELSE read
  /\ UNCHANGED <<config, status, request, aborted, sent, taken, ended, pc, csv,
                 bytesRead, didTruncate, released, outstanding, inner, promise,
                 cancels, cancelAt>>

\* ----------------------------------------------------------------- caller

\* Where the transfer is, as seen by a cancel().
Position ==
  IF promise.state # "pending" THEN "settled"
  ELSE IF request.state = "pending" THEN "awaitHeaders"
  ELSE IF pc = "awaitRead" /\ read = "pending" THEN "awaitChunk"
  ELSE IF pc = "done" \/ inner.state # "pending" THEN "terminated"
  ELSE "delivered"

abortRequestAlways(r) == Rejected("AbortError")

\* Effect of the abort signal on the fetch promise.
abortRequest(r) == IF r.state = "pending" THEN Rejected("AbortError") ELSE r

\* cancel: () => controller.abort()
cancel ==
  /\ cancels < MaxCancels
  /\ cancels' = cancels + 1
  /\ cancelAt' = IF cancels = 0 THEN Position ELSE cancelAt
  /\ aborted' = TRUE
  /\ IF aborted
     THEN UNCHANGED <<request, stream, streamErr, read>>
     ELSE /\ request' = abortRequest(request)
          /\ IF stream = "readable" /\ ~StreamClosed
             THEN /\ stream' = "errored"
                  /\ streamErr' = "AbortError"
                  /\ read' = IF read = "pending" THEN "AbortError" ELSE read
             ELSE UNCHANGED <<stream, streamErr, read>>
  /\ UNCHANGED <<config, status, sent, taken, ended, pc, csv, bytesRead,
                 didTruncate, released, outstanding, inner, promise>>

\* ------------------------------------------------------- processResponse

\* reader.read(): the promise it returns and the chunks taken afterwards.
readResult ==
  IF stream = "errored" THEN streamErr
  ELSE IF stream = "cancelled" THEN "done"
  ELSE IF taken < sent THEN "chunk"
  ELSE IF ended THEN "done"
  ELSE "pending"

takenAfterRead == IF readResult = "chunk" THEN taken + 1 ELSE taken

\* request.then(processResponse) on a fulfilled request: getReader, the
\* locals, and the first reader.read().
processResponse ==
  /\ request.state = "fulfilled"
  /\ pc = "notStarted"
  /\ pc' = "awaitRead"
  /\ read' = readResult
  /\ taken' = takenAfterRead
  /\ csv' = <<>>
  /\ bytesRead' = 0
  /\ didTruncate' = FALSE
  /\ outstanding' = outstanding + 1
  /\ UNCHANGED <<config, status, request, aborted, stream, streamErr, sent, ended,
                 released, inner, promise, cancels, cancelAt>>

\* request.then(processResponse) on a rejected request: processResponse is
\* not called and the rejection passes on.
thenRejected ==
  /\ request.state = "rejected"
  /\ inner.state = "pending"
  /\ inner' = Rejected(request.name)
  /\ UNCHANGED <<config, netVars, aborted, pc, read, csv, bytesRead, didTruncate,
                 released, outstanding, promise, cancels, cancelAt>>

finishKeepReading(text, n, truncated) ==
  /\ pc' = pc
  /\ read' = readResult
  /\ taken' = takenAfterRead
  /\ outstanding' = outstanding
  /\ csv' = text
  /\ bytesRead' = n
  /\ didTruncate' = truncated
  /\ released' = IF released = 0 THEN 1 ELSE released
  /\ stream' = IF stream = "readable" THEN "cancelled" ELSE stream
  /\ inner' = inner

\* reader.cancel() followed by the return of the result.
finish(text, n, truncated) ==
  /\ pc' = "done"
  /\ read' = "none"
  /\ outstanding' = outstanding - 1
  /\ csv' = text
  /\ bytesRead' = n
  /\ didTruncate' = truncated
  /\ released' = released + 1
  /\ stream' = IF stream = "readable" THEN "cancelled" ELSE stream
  /\ inner' = Fulfilled([csv |-> text, bytesRead |-> n, didTruncate |-> truncated])
  /\ UNCHANGED taken

\* The resumption after `await reader.read()`: one pass of the while loop
\* up to the next await, the break, or the end of the function.
readLoop ==
  /\ pc = "awaitRead"
  /\ read \notin {"none", "pending"}
  /\ IF read \in {"AbortError", "TypeError"}
     THEN \* the await throws: nothing after it runs
          /\ pc' = "done"
          /\ inner' = Rejected(read)
          /\ read' = "none"
          /\ outstanding' = outstanding - 1
          /\ UNCHANGED <<csv, bytesRead, didTruncate, released, stream, taken>>
     ELSE IF read = "done"
     THEN finish(csv, bytesRead, didTruncate)
     ELSE LET value == payload[taken]
              text == decode(value)
              n == countBytes(bytesRead, value)
          IN IF exceedsLimit(n, FLUX_RESPONSE_BYTES_LIMIT)
             THEN finish(accumulate(csv, trimPartialLines(text)), n, TRUE)
             ELSE /\ csv' = accumulate(csv, text)
                  /\ bytesRead' = n
                  /\ outstanding' = outstanding
                  /\ read' = readResult
                  /\ taken' = takenAfterRead
                  /\ UNCHANGED <<pc, didTruncate, released, stream, inner>>
  /\ UNCHANGED <<config, status, request, aborted, streamErr, sent, ended, promise,
                 cancels, cancelAt>>

\* The .catch handler and the settling of the handle's promise.
catchHandlerDropsErrors ==
  /\ inner.state = "fulfilled"
  /\ promise.state = "pending"
  /\ promise' = inner
  /\ UNCHANGED <<config, netVars, aborted, loopVars, cancels, cancelAt>>

catchHandler ==
  /\ inner.state # "pending"
  /\ promise.state = "pending"
  /\ promise' = IF inner.state = "rejected"
                THEN Rejected(catchError(inner.name))
                ELSE inner
  /\ UNCHANGED <<config, netVars, aborted, loopVars, cancels, cancelAt>>

Next ==
  \/ ResponseArrives
  \/ RequestFails
  \/ ChunkArrives
  \/ EndArrives
  \/ SourceError
  \/ cancel
  \/ processResponse
  \/ thenRejected
  \/ readLoop
  \/ catchHandler

Spec == Init /\ [][Next]_vars

\* The same transfer when the job queue runs every reaction that is ready
\* and the network delivers the response, the chunks and the end of the
\* stream; a source error and a cancel may happen but need not.
FairInit ==
  /\ payload \in PayloadsOf(MaxFairBytes)
  /\ FLUX_RESPONSE_BYTES_LIMIT \in Caps
  /\ Started
  /\ partialResp = <<>>
  /\ trimmed = <<>>

FairSpec ==
  /\ FairInit /\ [][Next]_vars
  /\ WF_vars(ResponseArrives)
  /\ WF_vars(ChunkArrives)
  /\ WF_vars(EndArrives)
  /\ WF_vars(processResponse)
  /\ WF_vars(thenRejected)
  /\ WF_vars(readLoop)
  /\ WF_vars(catchHandler)

\* ------------------------------------------- trimPartialLines on its own
\* A fragment is chosen and trimPartialLines is applied to it, and then to
\* its own result.
TrimInit ==
  /\ payload = <<>>
  /\ FLUX_RESPONSE_BYTES_LIMIT = 1
  /\ Started
  /\ partialResp \in Fragments
  /\ trimmed = <<>>

applyTrim ==
  /\ Len(trimmed) < 2
  /\ trimmed' = Append(trimmed,
                       trimPartialLines(IF trimmed = <<>> THEN partialResp
                                        ELSE trimmed[Len(trimmed)]))
  /\ UNCHANGED <<payload, FLUX_RESPONSE_BYTES_LIMIT, partialResp, netVars, aborted,
                 loopVars, promise, cancels, cancelAt>>

TrimNext == applyTrim

TrimSpec == TrimInit /\ [][TrimNext]_vars

TypeOK ==
  /\ pc \in {"notStarted", "awaitRead", "done"}
  /\ read \in {"none", "pending", "chunk", "done", "AbortError", "TypeError"}
  /\ taken <= sent /\ sent <= Len(payload)
  /\ released \in 0..1
  /\ outstanding \in 0..1
  /\ Len(trimmed) <= 2

\* ------------------------------------------------- the payload, as sent
RECURSIVE totalBytes(_)
totalBytes(p) == IF p = <<>> THEN 0 ELSE Len(Head(p)) + totalBytes(Tail(p))

\* The texts of the chunks, each decoded on its own, in arrival order.
RECURSIVE chunkTexts(_)
chunkTexts(p) == IF p = <<>> THEN <<>> ELSE decode(Head(p)) \o chunkTexts(Tail(p))

IsPrefix(s, t) == Len(s) <= Len(t) /\ SubSeq(t, 1, Len(s)) = s

EndsWith(s, t) == Len(t) <= Len(s) /\ SubSeq(s, Len(s) - Len(t) + 1, Len(s)) = t

HasNewline(s) == \E i \in 1..Len(s) : s[i] = LF

EndsWithNewline(s) == s # <<>> /\ s[Len(s)] = LF

\* Index of the chunk on which the running size first exceeds the cap.
crossIndex(p, cap) ==
  CHOOSE k \in 1..Len(p) :
    /\ totalBytes(SubSeq(p, 1, k)) > cap
    /\ \A j \in 1..(k - 1) : totalBytes(SubSeq(p, 1, j)) <= cap

RECURSIVE flatten(_)
flatten(p) == IF p = <<>> THEN <<>> ELSE Head(p) \o flatten(Tail(p))

Contains(s, x) == \E i \in 1..Len(s) : s[i] = x

\* The longest prefix of x that ends with a newline, x itself when it has none.
lastNewlinePrefix(x) ==
  IF ~HasNewline(x) THEN x
  ELSE SubSeq(x, 1, CHOOSE k \in 1..Len(x) :
                      x[k] = LF /\ \A j \in (k + 1)..Len(x) : x[j] # LF)

\* Chunks the read loop has gone through.
Processed == IF read = "chunk" THEN taken - 1 ELSE taken
ProcessedChunks == SubSeq(payload, 1, Processed)
\* The bytes are not valid UTF-8: a lead byte without its continuation
\* byte, or a continuation byte without a lead byte.
RECURSIVE invalidUtf8(_)
invalidUtf8(bs) ==
  IF bs = <<>> THEN FALSE
  ELSE IF Head(bs) = ByteLead
       THEN Len(bs) < 2 \/ bs[2] # ByteCont \/ invalidUtf8(Tail(Tail(bs)))
       ELSE Head(bs) = ByteCont \/ invalidUtf8(Tail(bs))

Malformed == invalidUtf8(flatten(payload))

Total == totalBytes(payload)
OverCap == Total > FLUX_RESPONSE_BYTES_LIMIT
CrossingText == decode(payload[crossIndex(payload, FLUX_RESPONSE_BYTES_LIMIT)])
Settled == promise.state # "pending"
TransportErrorSeen == streamErr = "TypeError" \/ request.name = "TypeError"

\* ================================================================ claims

C2_Original ==
  (promise.state = "fulfilled" /\ OverCap)
    => /\ promise.value.didTruncate
       /\ (promise.value.csv = <<>> \/ EndsWithNewline(promise.value.csv))

\* C2 amended: a payload of more than cap bytes gives a Result with the
\* truncation flag set; its text ends with a newline when the cap-crossing
\* chunk contains a newline, and ends with that whole chunk when it
\* contains none.
C2_Amended ==
  (promise.state = "fulfilled" /\ OverCap)
    => /\ promise.value.didTruncate
       /\ IF HasNewline(CrossingText)
          THEN EndsWithNewline(promise.value.csv)
          ELSE EndsWith(promise.value.csv, CrossingText)

C2_Witness ==
  /\ promise.state = "fulfilled" /\ OverCap
  /\ HasNewline(CrossingText) /\ ~EndsWithNewline(CrossingText)
  /\ EndsWithNewline(promise.value.csv)

C4_ReleasedOnce == pc = "done" => released = 1

\* C5 as stated: when a cancel and a transport error both precede the
\* settlement, the reported outcome is the CancellationError.
C5_CancelPriority ==
  (Settled /\ cancelAt \in {"awaitHeaders", "awaitChunk", "delivered"}
     /\ TransportErrorSeen /\ promise.state = "rejected")
    => promise = Rejected("CancellationError")

\* C6 as stated: a response with a non-success status never settles the
\* producer with a Result.
C6_NonSuccessIsError == promise.state = "fulfilled" => status = 200

\* C7: in every Result the truncation flag is set exactly when the byte
\* count is greater than the cap.
C7_FlagIffOverCap ==
  promise.state = "fulfilled"
    => (promise.value.didTruncate
          <=> promise.value.bytesRead > FLUX_RESPONSE_BYTES_LIMIT)

C7_Witness ==
  /\ promise.state = "fulfilled"
  /\ promise.value.didTruncate
  /\ promise.value.bytesRead = FLUX_RESPONSE_BYTES_LIMIT + 1

\* C8 as stated: for a payload of more than cap bytes the text of the
\* Result is a strict prefix of the payload's text.
C8_Original ==
  (promise.state = "fulfilled" /\ OverCap)
    => /\ IsPrefix(promise.value.csv, chunkTexts(payload))
       /\ promise.value.csv # chunkTexts(payload)

\* C8 amended: for a payload of more than cap bytes the text of the Result
\* is a prefix of the chunk texts in arrival order, and it is the whole of
\* them exactly when the cap-crossing chunk is the last chunk and either
\* contains no newline or ends with one.
C8_Amended ==
  (promise.state = "fulfilled" /\ OverCap)
    => /\ IsPrefix(promise.value.csv, chunkTexts(payload))
       /\ (promise.value.csv = chunkTexts(payload))
            <=> /\ crossIndex(payload, FLUX_RESPONSE_BYTES_LIMIT) = Len(payload)
                /\ (~HasNewline(CrossingText) \/ EndsWithNewline(CrossingText))

C8_Witness ==
  /\ promise.state = "fulfilled" /\ OverCap
  /\ Len(payload) = 2
  /\ promise.value.csv # chunkTexts(payload)
  /\ promise.value.csv # <<>>

\* C9: a cancel after an earlier cancel changes nothing, a cancel after the
\* read loop has terminated changes nothing but the abort flag, and a
\* settled outcome never changes.
C9_CancelIdempotent ==
  /\ [][(cancels' = cancels + 1 /\ aborted)
          => UNCHANGED <<config, netVars, aborted, loopVars, promise>>]_vars
  /\ [][(cancels' = cancels + 1 /\ (pc = "done" \/ inner.state # "pending"))
          => UNCHANGED <<config, netVars, loopVars, promise>>]_vars
  /\ [][Settled => promise' = promise]_vars

C9_Witness ==
  /\ cancels = 2
  /\ cancelAt = "awaitChunk"
  /\ promise = Rejected("CancellationError")

C9_WitnessAfter ==
  /\ cancels >= 1
  /\ cancelAt = "settled"
  /\ promise.state = "fulfilled"

\* C10: once the byte count exceeds the cap the transfer ends in a Result
\* with the truncation flag set, never in an error.
C10_TruncationIsSuccess ==
  bytesRead > FLUX_RESPONSE_BYTES_LIMIT
    => /\ inner = Fulfilled([csv |-> csv, bytesRead |-> bytesRead, didTruncate |-> TRUE])
       /\ Settled => promise = inner

C10_Witness ==
  /\ bytesRead > FLUX_RESPONSE_BYTES_LIMIT
  /\ promise.state = "fulfilled"
  /\ promise.value.didTruncate
  /\ Len(payload) = 2 /\ taken = 2

\* C11: a transport error reported by the request or by a read settles the
\* producer with that same error, with no Result and no CancellationError.
C11_ErrorPropagates ==
  /\ []((request = Rejected("TypeError") /\ inner.state # "pending")
          => inner = Rejected("TypeError"))
  /\ [][(read = "TypeError" /\ read' # read)
          => (inner' = Rejected("TypeError") /\ csv' = csv)]_vars
  /\ []((inner = Rejected("TypeError") /\ Settled)
          => promise = Rejected("TypeError"))

C11_Witness ==
  /\ promise = Rejected("TypeError")
  /\ streamErr = "TypeError"
  /\ cancelAt = "none"
  /\ csv # <<>>

\* C12: the byte count is the sum of the byte lengths of the chunks the loop
\* has gone through, the whole cap-crossing chunk included, and the Result
\* carries that count.
C12_BytesCountChunks ==
  /\ bytesRead = totalBytes(ProcessedChunks)
  /\ promise.state = "fulfilled" => promise.value.bytesRead = bytesRead
  /\ didTruncate =>
       bytesRead = totalBytes(SubSeq(payload, 1,
                                     crossIndex(payload, FLUX_RESPONSE_BYTES_LIMIT)))

C12_Witness ==
  /\ promise.state = "fulfilled"
  /\ promise.value.didTruncate
  /\ promise.value.bytesRead = 3
  /\ Len(promise.value.csv) = 2
  /\ EndsWithNewline(promise.value.csv)

\* C13: when the network delivers its events and the reactions run, the
\* producer eventually settles, and once settled it never changes.
C13_SettlesOnce ==
  /\ <>Settled
  /\ [][Settled => promise' = promise]_vars

C13_Witness ==
  /\ Settled
  /\ Len(payload) = 2
  /\ taken = 2
  /\ cancels = 0

\* C14: once a chunk takes the byte count over the cap the loop has ended on
\* that chunk: no read is requested afterwards and later chunks change
\* neither the count nor the text.
C14_StopsAtCrossing ==
  /\ [](bytesRead > FLUX_RESPONSE_BYTES_LIMIT
          => /\ didTruncate
             /\ pc = "done" /\ read = "none" /\ outstanding = 0
             /\ taken = crossIndex(payload, FLUX_RESPONSE_BYTES_LIMIT))
  /\ [][didTruncate => UNCHANGED <<csv, bytesRead, taken, read, outstanding>>]_vars

C14_Witness ==
  /\ didTruncate
  /\ Settled
  /\ sent > taken

\* C15: trimPartialLines returns the longest prefix ending with the last
\* newline of the fragment, and the fragment itself when it is empty or has
\* no newline.
C15_LongestPrefix ==
  Len(trimmed) >= 1 => trimmed[1] = lastNewlinePrefix(partialResp)

C15_Witness ==
  /\ Len(trimmed) >= 1
  /\ Len(partialResp) = 3
  /\ partialResp[1] = LF /\ partialResp[2] # LF /\ partialResp[3] # LF
  /\ trimmed[1] = <<LF>>

\* C16: trimPartialLines leaves a fragment that ends with a newline
\* unchanged, and applying it to its own result changes nothing.
C16_Idempotent ==
  /\ (Len(trimmed) >= 1 /\ EndsWithNewline(partialResp)) => trimmed[1] = partialResp
  /\ Len(trimmed) = 2 => trimmed[2] = trimmed[1]

C16_Witness ==
  /\ Len(trimmed) = 2
  /\ trimmed[1] # partialResp
  /\ Len(trimmed[1]) = 2
  /\ trimmed[2] = trimmed[1]

\* C17: whenever the loop is suspended on a read, the text is the texts of
\* the chunks gone through so far, in arrival order, and the byte count is
\* the sum of the sizes of exactly those chunks.
C17_CounterAndTextTogether ==
  pc = "awaitRead"
    => /\ csv = chunkTexts(ProcessedChunks)
       /\ bytesRead = totalBytes(ProcessedChunks)

C17_Witness ==
  /\ pc = "awaitRead"
  /\ read = "pending"
  /\ taken = 2
  /\ decode(payload[1]) # decode(payload[2])

\* C18: at most one read request is outstanding at any time, and none is
\* outstanding or issued once the byte source has been released.
C18_ExclusiveReads ==
  /\ [](/\ outstanding \in {0, 1}
        /\ read = "pending" => (outstanding = 1 /\ stream = "readable")
        /\ released >= 1 => (outstanding = 0 /\ read = "none"))
  /\ [][released >= 1 => (outstanding' = outstanding /\ taken' = taken)]_vars

C18_Witness ==
  /\ released = 1
  /\ outstanding = 0
  /\ sent > taken
  /\ taken >= 1

\* C19 as stated: the text of an untruncated Result is the decoding of the
\* payload's bytes as a whole, however the payload is split into chunks.
C19_SplitDecoding ==
  (promise.state = "fulfilled" /\ ~promise.value.didTruncate)
    => promise.value.csv = decode(flatten(payload))

\* C20 as stated: a payload with a malformed byte sequence gives no Result.
C20_Original ==
  (promise.state = "fulfilled" /\ ~promise.value.didTruncate) => ~Malformed

\* C20 amended: a malformed byte sequence does not fail the transfer: the
\* producer reports no error but the CancellationError and the transport
\* error, and the Result holds U+FFFD in place of the malformed bytes.
C20_Amended ==
  /\ promise.state = "rejected" => promise.name \in {"CancellationError", "TypeError"}
  /\ (promise.state = "fulfilled" /\ ~promise.value.didTruncate /\ Malformed)
       => Contains(promise.value.csv, Replacement)

C20_Witness ==
  /\ promise.state = "fulfilled"
  /\ ~promise.value.didTruncate
  /\ payload = <<<<ByteA, ByteCont>>>>
  /\ promise.value.csv = <<ByteA, Replacement>>

====
